---- MODULE Spec2Model ----
(***************************************************************************)
(* Long Plan: plan generation (src/plan_generator.py), the progression     *)
(* operations and the serialization of a Plan (src/models.py), the file of *)
(* Storage (src/storage.py) and the handlers of the main window            *)
(* (src/main.py).                                                          *)
(*                                                                         *)
(* Text is modelled as a sequence of syllable tokens, one token per Hangul *)
(* syllable (romanised), " " for a blank and single Latin letters.         *)
(* uuid.uuid4() is modelled as a counter: ids are handed out in the order  *)
(* the constructors run, so all ids of a plan are distinct.                *)
(***************************************************************************)
EXTENDS Integers, Sequences, FiniteSets, TLC

\* ------------------------------------------------------------------ bounds
\* successful skip_current calls explored per run
MaxSkips == 2

\* length of the goals built from GoalAlphabet
MaxGoalLen == 2

\* ------------------------------------------------------- models.py: enums
PENDING == "pending"
COMPLETED == "completed"
SKIPPED == "skipped"
ItemStatus == {PENDING, COMPLETED, SKIPPED}

Duration == {"3months", "6months", "1year"}

weeks(duration) ==
    CASE duration = "3months" -> 12
      [] duration = "6months" -> 26
      [] duration = "1year" -> 52

\* Optional[...]: the absent value
None == [none |-> TRUE]

\* a returned bool; every returned value is a record, so that any two of
\* them can be compared
Bool(b) == [bool |-> b]

\* ------------------------------------------- plan_generator.py: templates
DEFAULT_PHASES == <<
    <<"prepare", <<"make the goal concrete", "collect materials", "set up environment", "grasp basic concepts">> >>,
    <<"basics", <<"learn core concepts", "acquire basic skills", "follow simple examples", "practice basics">> >>,
    <<"advanced", <<"learn advanced content", "start a real project", "focus on hard parts", "apply feedback">> >>,
    <<"practice", <<"apply for real", "raise the quality", "fill the gaps", "tidy up the results">> >>,
    <<"wrap-up", <<"review everything", "summarise results", "plan the next step">> >> >>

STUDY_PHASES == <<
    <<"prepare", <<"set learning goals", "choose textbooks", "set up study environment">> >>,
    <<"basic study", <<"study basic theory", "summarise core concepts", "solve basic problems", "tidy notes">> >>,
    <<"advanced study", <<"study advanced theory", "solve applied problems", "focus on unknown parts">> >>,
    <<"real practice", <<"solve real problems", "practice with time limit", "analyse wrong answers", "fix weak points">> >>,
    <<"wrap-up", <<"review everything", "final check", "summarise results">> >> >>

PROJECT_PHASES == <<
    <<"planning", <<"define project scope", "list requirements", "design structure">> >>,
    <<"prepare", <<"set up dev environment", "learn needed technology", "build prototype">> >>,
    <<"development", <<"implement core features", "implement detail features", "test", "fix bugs">> >>,
    <<"completion", <<"polish UI/UX", "document", "final test">> >>,
    <<"release", <<"prepare release", "release", "collect feedback">> >> >>

SKILL_PHASES == <<
    <<"explore", <<"analyse the skill", "find learning materials", "set target level">> >>,
    <<"basics", <<"learn basic moves", "practice basic patterns", "practice briefly every day">> >>,
    <<"growth", <<"learn intermediate techniques", "practice varied situations", "get feedback">> >>,
    <<"mastery", <<"learn advanced techniques", "apply for real", "keep it up">> >> >>

HEALTH_PHASES == <<
    <<"prepare", <<"check current condition", "set goals", "make a plan">> >>,
    <<"adapt", <<"start lightly", "build a routine", "let the body adapt">> >>,
    <<"strengthen", <<"raise intensity", "take new challenges", "measure records">> >>,
    <<"maintain", <<"keep the routine", "manage condition", "confirm goal reached">> >> >>

\* variant: the health keywords are tried before the skill keywords
Categories_healthfirst == <<"study", "project", "health", "skill">>

\* self.keywords, in the insertion order of the dict
Categories == <<"study", "project", "skill", "health">>

keywords(category) ==
    CASE category = "study" ->
           << <<"gong","bu">>, <<"hak","seup">>, <<"si","heom">>, <<"ja","gyeok","jeung">>,
              <<"eon","eo">>, <<"yeong","eo">>, <<"su","hak">>, <<"ko","ding">> >>
      [] category = "project" ->
           << <<"peu","ro","jek","teu">>, <<"gae","bal">>, <<"man","deul","gi">>, <<"aep">>,
              <<"wep">>, <<"sa","i","teu">>, <<"seo","bi","seu">> >>
      [] category = "skill" ->
           << <<"seu","kil">>, <<"gi","sul">>, <<"ak","gi">>, <<"geu","rim">>,
              <<"un","dong">>, <<"yo","ri">>, <<"pi","a","no">>, <<"gi","ta">> >>
      [] category = "health" ->
           << <<"un","dong">>, <<"da","i","eo","teu">>, <<"geon","gang">>, <<"che","ryeok">>,
              <<"geun","yuk">>, <<"dal","ri","gi">>, <<"hel","seu">> >>

\* str.lower() on one token: only cased (Latin) letters change
LowerChar(c) ==
    CASE c = "A" -> "a"
      [] c = "B" -> "b"
      [] c = "C" -> "c"
      [] OTHER -> c

lower(s) == [k \in 1..Len(s) |-> LowerChar(s[k])]

\* keyword in goal_lower: substring containment
Contains(s, kw) ==
    \E start \in 1..(Len(s) - Len(kw) + 1) :
        \A k \in 1..Len(kw) : s[start + k - 1] = kw[k]

RECURSIVE DetectFrom(_, _)
DetectFrom(goal_lower, c) ==
    IF c > Len(Categories) THEN "default"
    ELSE IF \E k \in 1..Len(keywords(Categories[c])) :
                Contains(goal_lower, keywords(Categories[c])[k])
         THEN Categories[c]
         ELSE DetectFrom(goal_lower, c + 1)

_detect_category(goal) == DetectFrom(lower(goal), 1)

\* the class attributes STUDY_PHASES .. DEFAULT_PHASES as they are at start-up,
\* under the keys of the dict of _get_phase_template
TemplateTable ==
    [study |-> STUDY_PHASES, project |-> PROJECT_PHASES, skill |-> SKILL_PHASES,
     health |-> HEALTH_PHASES, default |-> DEFAULT_PHASES]

\* the lists these class attributes hold now: they are shared by every call
VARIABLE templates

\* the key of the list templates.get(category, self.DEFAULT_PHASES) returns
TemplateKey(category) ==
    IF category \in DOMAIN templates THEN category ELSE "default"

\* variant: a category without a template of its own gets no phases
_get_phase_template_nodefault(category) ==
    IF category \in DOMAIN templates \ {"default"} THEN templates[category] ELSE <<>>

_get_phase_template(category) == templates[TemplateKey(category)]

\* ------------------------------------------------ plan_generator.py: scaler
hours_per_item == 3

Max2(a, b) == IF a >= b THEN a ELSE b
Min2(a, b) == IF a <= b THEN a ELSE b

RECURSIVE SumLens(_, _)
SumLens(phases, k) ==
    IF k > Len(phases) THEN 0 ELSE Len(phases[k][2]) + SumLens(phases, k + 1)

target_items(duration, weekly_hours) ==
    Max2(10, (weeks(duration) * weekly_hours) \div hours_per_item)

\* variant: multiplier >= 1.5
MultiplierAbove_atleast(target, current) == 2 * target >= 3 * current

\* multiplier = target_items / current_total is kept as the exact fraction
\* target/current; over the program's inputs the float comparison and the
\* float truncation agree with the exact ones.
\* multiplier > 1.5
MultiplierAbove(target, current) == 2 * target > 3 * current

\* variant: len(items[:int(len(items) * multiplier)])
DeepenCount_whole(n, target, current) ==
    Min2(n, (n * target) \div current)

\* variant: the count is rounded up instead of truncated
DeepenCount_ceil(n, target, current) ==
    Min2(n, (n * (target - current) + current - 1) \div current)

\* len(items[:int(len(items) * (multiplier - 1))])
DeepenCount(n, target, current) ==
    Min2(n, (n * (target - current)) \div current)

Deepened(item) == item \o " (deep)"

\* variant: the renamed duplicates are put before the original items
expanded_items_front(items, target, current) ==
    IF MultiplierAbove(target, current)
    THEN [k \in 1..DeepenCount(Len(items), target, current) |-> Deepened(items[k])] \o items
    ELSE items

expanded_items(items, target, current) ==
    IF MultiplierAbove(target, current)
    THEN items \o [k \in 1..DeepenCount(Len(items), target, current) |-> Deepened(items[k])]
    ELSE items

_adjust_items_for_duration(phases, duration, weekly_hours) ==
    LET target == target_items(duration, weekly_hours)
        current_total == SumLens(phases, 1)
    IN  IF target > current_total
        THEN [p \in 1..Len(phases) |->
                 <<phases[p][1], expanded_items(phases[p][2], target, current_total)>>]
        ELSE phases

\* ---------------------------------------------- plan_generator.py: generate
\* ids in the order uuid4 is called: the plan, then each phase followed by
\* its items
PlanId == 1

RECURSIVE PhaseId(_, _)
PhaseId(tpl, p) ==
    IF p = 1 THEN PlanId + 1
    ELSE PhaseId(tpl, p - 1) + Len(tpl[p - 1][2]) + 1

\* variant: a new item starts with the status skipped
ItemCreate_skipped(id, name, phase_id, order) ==
    [id |-> id, name |-> name, phase_id |-> phase_id, order |-> order, status |-> SKIPPED]

\* variant: a new item keeps the order 0 whatever order it is given
ItemCreate_noorder(id, name, phase_id, order) ==
    [id |-> id, name |-> name, phase_id |-> phase_id, order |-> 0, status |-> PENDING]

ItemCreate(id, name, phase_id, order) ==
    [id |-> id, name |-> name, phase_id |-> phase_id, order |-> order, status |-> PENDING]

\* variant: the items are given the id of the plan as their phase_id
RECURSIVE CreateItems_planid(_, _, _)
CreateItems_planid(item_names, phase_id, n) ==
    IF n = 0 THEN <<>>
    ELSE Append(CreateItems_planid(item_names, phase_id, n - 1),
                ItemCreate(phase_id + n, item_names[n], PlanId, n - 1))

\* for item_order, item_name in enumerate(item_names): phase.items.append(...)
RECURSIVE CreateItems(_, _, _)
CreateItems(item_names, phase_id, n) ==
    IF n = 0 THEN <<>>
    ELSE Append(CreateItems(item_names, phase_id, n - 1),
                ItemCreate(phase_id + n, item_names[n], phase_id, n - 1))

\* for phase_order, (phase_name, item_names) in enumerate(adjusted_template):
\*     plan.phases.append(phase)
RECURSIVE CreatePhases(_, _)
CreatePhases(tpl, n) ==
    IF n = 0 THEN <<>>
    ELSE Append(CreatePhases(tpl, n - 1),
                [id |-> PhaseId(tpl, n),
                 name |-> tpl[n][1],
                 order |-> n - 1,
                 items |-> CreateItems(tpl[n][2], PhaseId(tpl, n), Len(tpl[n][2]))])

generate(goal, duration, weekly_hours) ==
    LET category == _detect_category(goal)
        phase_template == _get_phase_template(category)
        adjusted_template == _adjust_items_for_duration(phase_template, duration, weekly_hours)
    IN  [id |-> PlanId,
         goal |-> goal,
         duration |-> duration,
         weekly_hours |-> weekly_hours,
         phases |-> CreatePhases(adjusted_template, Len(adjusted_template))]

\* variant: expanded_items = items, so the appends of the scaler land in the
\* lists of phases
phases_after_adjust_alias(phases, duration, weekly_hours) ==
    _adjust_items_for_duration(phases, duration, weekly_hours)

\* the lists of phases after the scaler ran on them: its appends go to
\* expanded_items, which items.copy() made a list of its own, and generate
\* only reads the lists it is given
phases_after_adjust(phases, duration, weekly_hours) == phases

\* the template lists after a call that scaled the template of category
templates_after(category, duration, weekly_hours) ==
    [templates EXCEPT ![TemplateKey(category)] =
        phases_after_adjust(@, duration, weekly_hours)]

\* ------------------------------------------------------------ goal inputs
\* goals typed into the input view (already stripped, non-empty)
GoalList == <<
    <<"ak","gi">>,
    <<"yeong","eo"," ","gong","bu">>,
    <<"A","B","C">>,
    <<"un","dong">>,
    <<"geon","gang">>,
    <<"aep"," ","gae","bal">>,
    <<"aep"," ","gong","bu">>,
    <<"geon","gang"," ","yo","ri">> >>

\* characters goals are built from: syllables of the keywords of three
\* categories and a cased letter
GoalAlphabet == {"gong", "bu", "aep", "un", "dong", "A"}

RECURSIVE GoalsOfLen(_)
GoalsOfLen(n) ==
    IF n = 0 THEN {<<>>}
    ELSE {Append(g, c) : g \in GoalsOfLen(n - 1), c \in GoalAlphabet}

\* the goals the generator is called with
Goals ==
    {GoalList[k] : k \in 1..Len(GoalList)}
        \cup UNION {GoalsOfLen(n) : n \in 1..MaxGoalLen}

\* self.hours_spin.setRange(1, 40)
WeeklyHours == 1..40

\* the inputs <<goal, duration, weekly_hours>> the progression specification
\* generates its plans from: the skill template as it is (4 phases of 3
\* items) and the study template as it is (5 phases of 3, 4, 3, 4, 3 items)
ProgressionInputs == {
    <<GoalList[1], "3months", 1>>,
    <<GoalList[2], "1year", 1>> }

\* ------------------------------------------------- models.py: Plan methods
\* Body applied to the value of v. v is evaluated once, where a LET
\* definition is evaluated again at each of its uses when TLC evaluates
\* ENABLED.
Let(v, Body(_)) == CHOOSE y \in {Body(x) : x \in {v}} : TRUE

\* sorted(xs, key=lambda x: x.order): the positions of xs in sorted order.
\* The sort is stable: a position is inserted after every position already
\* there whose key is smaller or equal.
RECURSIVE SortInsert(_, _, _)
SortInsert(x, key, sorted) ==
    IF sorted = <<>> THEN <<x>>
    ELSE IF key[sorted[Len(sorted)]] <= key[x] THEN Append(sorted, x)
    ELSE Append(SortInsert(x, key, SubSeq(sorted, 1, Len(sorted) - 1)), sorted[Len(sorted)])

RECURSIVE SortPrefix(_, _)
SortPrefix(key, n) ==
    IF n = 0 THEN <<>>
    ELSE Let(SortPrefix(key, n - 1), LAMBDA sorted : SortInsert(n, key, sorted))

SortByKey(key) == SortPrefix(key, Len(key))

\* variant: the list is walked in list order, the sort is forgotten
sorted_unsorted(xs) ==
    Let([k \in 1..Len(xs) |-> 0], LAMBDA key : SortByKey(key))

sorted_by_order(xs) ==
    Let([k \in 1..Len(xs) |-> xs[k].order], LAMBDA key : SortByKey(key))

\* a reference to an item object: <<position of its phase in plan.phases,
\* position of the item in phase.items>>; NoRef when there is none
NoRef == <<0, 0>>

Deref(p, r) == p.phases[r[1]].items[r[2]]

\* the references to the items of phase ph, and to all items of the plan
PhaseRefs(p, ph) == {<<ph, i>> : i \in 1..Len(p.phases[ph].items)}
Refs(p) == UNION {PhaseRefs(p, ph) : ph \in 1..Len(p.phases)}
ItemIds(p) == {Deref(p, r).id : r \in Refs(p)}

\* variant: the scan of a phase gives up at its first item that is not pending
FirstPending_stop(items, idx, k) ==
    IF k > Len(items) THEN 0
    ELSE IF items[idx[k]].status = PENDING THEN idx[k]
    ELSE 0

RECURSIVE FirstPending(_, _, _)
FirstPending(items, idx, k) ==
    IF k > Len(items) THEN 0
    ELSE IF items[idx[k]].status = PENDING THEN idx[k]
    ELSE FirstPending(items, idx, k + 1)

\* for item in sorted(phase.items, ...): the first pending item of a phase
FirstPendingIn(items) ==
    Let(sorted_by_order(items), LAMBDA idx : FirstPending(items, idx, 1))

\* variant: only the first phase is scanned
ScanPhases_first(phases, idx, k) ==
    IF k > Len(phases) THEN NoRef
    ELSE Let(FirstPendingIn(phases[idx[k]].items),
             LAMBDA i : IF i # 0 THEN <<idx[k], i>> ELSE NoRef)

\* variant: the sorted phases are scanned from the last to the first
RECURSIVE ScanPhases_backwards(_, _, _)
ScanPhases_backwards(phases, idx, k) ==
    IF k > Len(phases) THEN NoRef
    ELSE Let(FirstPendingIn(phases[idx[Len(phases) + 1 - k]].items),
             LAMBDA i : IF i # 0 THEN <<idx[Len(phases) + 1 - k], i>>
                        ELSE ScanPhases_backwards(phases, idx, k + 1))

RECURSIVE ScanPhases(_, _, _)
ScanPhases(phases, idx, k) ==
    IF k > Len(phases) THEN NoRef
    ELSE Let(FirstPendingIn(phases[idx[k]].items),
             LAMBDA i : IF i # 0 THEN <<idx[k], i>> ELSE ScanPhases(phases, idx, k + 1))

\* variant: all items of the plan are sorted together by item order, the
\* phase order only breaking ties
current_ref_flat(p) ==
    LET pending == {r \in Refs(p) : Deref(p, r).status = PENDING}
        key(r) == <<Deref(p, r).order, p.phases[r[1]].order>>
        less(a, b) == key(a)[1] < key(b)[1] \/ (key(a)[1] = key(b)[1] /\ key(a)[2] < key(b)[2])
    IN  IF pending = {} THEN NoRef
        ELSE CHOOSE r \in pending : \A t \in pending \ {r} : less(r, t)

current_ref(p) ==
    Let(sorted_by_order(p.phases), LAMBDA idx : ScanPhases(p.phases, idx, 1))

get_current_item(p) ==
    Let(current_ref(p), LAMBDA current : IF current = NoRef THEN None ELSE Deref(p, current))

\* for phase in self.phases: if phase.id == current.phase_id
RECURSIVE FindPhase(_, _, _)
FindPhase(phases, phase_id, k) ==
    IF k > Len(phases) THEN 0
    ELSE IF phases[k].id = phase_id THEN k
    ELSE FindPhase(phases, phase_id, k + 1)

FindPhaseOf(phases, phase_id) == FindPhase(phases, phase_id, 1)

\* if current_item: for phase in self.phases: if phase.id == current_item.phase_id
get_current_phase(p) ==
    Let(get_current_item(p), LAMBDA current_item :
        IF current_item # None
        THEN Let(FindPhaseOf(p.phases, current_item.phase_id),
                 LAMBDA q : IF q # 0 THEN p.phases[q] ELSE None)
        ELSE None)

\* variant: total is counted inside the if, with completed
RECURSIVE CountItems_inside(_, _)
CountItems_inside(items, k) ==
    IF k > Len(items) THEN [total |-> 0, completed |-> 0]
    ELSE Let(CountItems_inside(items, k + 1), LAMBDA rest :
             IF items[k].status = COMPLETED
             THEN [total |-> rest.total + 1, completed |-> rest.completed + 1]
             ELSE rest)

\* the loops of get_progress over one phase: how many items were counted
\* into total and into completed
RECURSIVE CountItems(_, _)
CountItems(items, k) ==
    IF k > Len(items) THEN [total |-> 0, completed |-> 0]
    ELSE Let(CountItems(items, k + 1), LAMBDA rest :
             [total |-> rest.total + 1,
              completed |-> IF items[k].status = COMPLETED
                            THEN rest.completed + 1 ELSE rest.completed])

RECURSIVE CountPhases(_, _)
CountPhases(phases, k) ==
    IF k > Len(phases) THEN [total |-> 0, completed |-> 0]
    ELSE Let(CountPhases(phases, k + 1), LAMBDA rest :
         Let(CountItems(phases[k].items, 1), LAMBDA here :
             [total |-> rest.total + here.total,
              completed |-> rest.completed + here.completed]))

\* the pair (completed, total) that get_progress returns
get_progress(p) ==
    Let(CountPhases(p.phases, 1), LAMBDA n : [completed |-> n.completed, total |-> n.total])

\* variant: the first pending item in list order is completed, whatever its order
complete_current_listorder(p) ==
    LET pending == {r \in Refs(p) : Deref(p, r).status = PENDING}
        current == IF pending = {} THEN NoRef
                   ELSE CHOOSE r \in pending : \A t \in pending \ {r} :
                            r[1] < t[1] \/ (r[1] = t[1] /\ r[2] < t[2])
    IN  IF current # NoRef
        THEN [plan |-> [p EXCEPT !.phases[current[1]].items[current[2]].status = COMPLETED],
              value |-> TRUE, current |-> current]
        ELSE [plan |-> p, value |-> FALSE, current |-> current]

\* variant: True is returned also when there is no current item
complete_current_true(p) ==
    Let(current_ref(p), LAMBDA current :
        IF current # NoRef
        THEN [plan |-> [p EXCEPT !.phases[current[1]].items[current[2]].status = COMPLETED],
              value |-> TRUE, current |-> current]
        ELSE [plan |-> p, value |-> TRUE, current |-> current])

\* the result of a mutating method: the plan afterwards, the value returned
\* and the object its local variable `current` referred to
\* variant: the completed item is also given the order 0
complete_current_reorder(p) ==
    Let(current_ref(p), LAMBDA current :
        IF current # NoRef
        THEN [plan |-> [p EXCEPT !.phases[current[1]].items[current[2]] =
                                     [@ EXCEPT !.status = COMPLETED, !.order = 0]],
              value |-> TRUE, current |-> current]
        ELSE [plan |-> p, value |-> FALSE, current |-> current])

complete_current(p) ==
    Let(current_ref(p), LAMBDA current :
        IF current # NoRef
        THEN [plan |-> [p EXCEPT !.phases[current[1]].items[current[2]].status = COMPLETED],
              value |-> TRUE, current |-> current]
        ELSE [plan |-> p, value |-> FALSE, current |-> current])

\* variant: the order of the last item of the list is taken for the maximum
MaxOrder_last(items, k) == items[Len(items)].order

RECURSIVE MaxOrder(_, _)
MaxOrder(items, k) ==
    IF k = Len(items) THEN items[k].order
    ELSE Max2(items[k].order, MaxOrder(items, k + 1))

\* variant: the item gets the maximum order itself, not one more
skip_current_max(p) ==
    LET current == current_ref(p)
        q == IF current = NoRef THEN 0
             ELSE FindPhase(p.phases, Deref(p, current).phase_id, 1)
    IN  IF current # NoRef /\ q # 0
        THEN [plan |-> [p EXCEPT !.phases[current[1]].items[current[2]].order =
                                     MaxOrder(p.phases[q].items, 1)],
              value |-> TRUE, current |-> current]
        ELSE [plan |-> p, value |-> FALSE, current |-> current]

\* variant: the skipped item is also given the status skipped
skip_current_status(p) ==
    LET current == current_ref(p)
        q == IF current = NoRef THEN 0
             ELSE FindPhase(p.phases, Deref(p, current).phase_id, 1)
    IN  IF current # NoRef /\ q # 0
        THEN [plan |-> [p EXCEPT !.phases[current[1]].items[current[2]] =
                                     [@ EXCEPT !.order = MaxOrder(p.phases[q].items, 1) + 1,
                                               !.status = SKIPPED]],
              value |-> TRUE, current |-> current]
        ELSE [plan |-> p, value |-> FALSE, current |-> current]

\* variant: the phase is renumbered, the skipped item takes the highest order
\* and the items that were behind it move up by one
skip_current_renumber(p) ==
    LET current == current_ref(p)
        q == IF current = NoRef THEN 0
             ELSE FindPhase(p.phases, Deref(p, current).phase_id, 1)
    IN  IF current # NoRef /\ q # 0
        THEN [plan |-> [p EXCEPT !.phases[current[1]].items =
                  [i \in 1..Len(@) |->
                      IF i = current[2]
                      THEN [@[i] EXCEPT !.order = MaxOrder(p.phases[q].items, 1)]
                      ELSE IF @[i].order > Deref(p, current).order
                           THEN [@[i] EXCEPT !.order = @ - 1]
                           ELSE @[i]]],
              value |-> TRUE, current |-> current]
        ELSE [plan |-> p, value |-> FALSE, current |-> current]

\* variant: the skipped item gets the number of items of its phase as order
skip_current_len(p) ==
    LET current == current_ref(p)
        q == IF current = NoRef THEN 0
             ELSE FindPhase(p.phases, Deref(p, current).phase_id, 1)
    IN  IF current # NoRef /\ q # 0
        THEN [plan |-> [p EXCEPT !.phases[current[1]].items[current[2]].order =
                                     Len(p.phases[q].items)],
              value |-> TRUE, current |-> current]
        ELSE [plan |-> p, value |-> FALSE, current |-> current]

\* variant: the skipped item changes places with the pending item after it
skip_current_swap(p) ==
    LET current == current_ref(p)
        q == IF current = NoRef THEN 0
             ELSE FindPhase(p.phases, Deref(p, current).phase_id, 1)
        items == p.phases[current[1]].items
        later == {i \in 1..Len(items) :
                     items[i].status = PENDING /\ items[i].order > items[current[2]].order}
        next == CHOOSE i \in later : \A j \in later : items[i].order <= items[j].order
    IN  IF current # NoRef /\ q # 0
        THEN [plan |-> IF later = {} THEN p
                       ELSE [p EXCEPT !.phases[current[1]].items =
                                [i \in 1..Len(items) |->
                                    IF i = current[2]
                                    THEN [items[i] EXCEPT !.order = items[next].order]
                                    ELSE IF i = next
                                         THEN [items[i] EXCEPT !.order = items[current[2]].order]
                                         ELSE items[i]]],
              value |-> TRUE, current |-> current]
        ELSE [plan |-> p, value |-> FALSE, current |-> current]

skip_current(p) ==
    LET current == current_ref(p)
        q == IF current = NoRef THEN 0
             ELSE FindPhase(p.phases, Deref(p, current).phase_id, 1)
    IN  IF current # NoRef /\ q # 0
        THEN [plan |-> [p EXCEPT !.phases[current[1]].items[current[2]].order =
                                     MaxOrder(p.phases[q].items, 1) + 1],
              value |-> TRUE, current |-> current]
        ELSE [plan |-> p, value |-> FALSE, current |-> current]

\* ------------------------------------------ models.py: to_dict / from_dict
\* JSON values, as json.dump writes and json.load returns them: each kind has
\* a field name of its own
JNull == [null |-> TRUE]
JStr(s) == [str |-> s]
JNum(n) == [num |-> n]
JArr(xs) == [arr |-> xs]
JObj(f) == [obj |-> f]

\* the Python value of a JSON string or number; other values stay as they are
Untag(j) ==
    IF "str" \in DOMAIN j THEN j.str
    ELSE IF "num" \in DOMAIN j THEN j.num
    ELSE j

\* the outcome of an evaluation: a value, or the exception it raised
Ok(v) == [ok |-> v]
Raise(e) == [raise |-> e]
Raised(r) == "raise" \in DOMAIN r

\* Body applied to the value of r, unless r raised
Try(r, Body(_)) == IF Raised(r) THEN r ELSE Body(r.ok)

\* data[key]
Subscript(data, key) ==
    IF "obj" \in DOMAIN data
    THEN IF key \in DOMAIN data.obj THEN Ok(data.obj[key]) ELSE Raise("KeyError")
    ELSE Raise("TypeError")

\* data.get(key, default)
GetOr(data, key, default) ==
    IF "obj" \in DOMAIN data
    THEN IF key \in DOMAIN data.obj THEN Ok(data.obj[key]) ELSE Ok(default)
    ELSE Raise("AttributeError")

RECURSIVE KeysOf(_)
KeysOf(S) ==
    IF S = {} THEN <<>>
    ELSE LET k == CHOOSE x \in S : TRUE IN <<JStr(k)>> \o KeysOf(S \ {k})

\* the values a for loop or a comprehension draws from data: the elements
\* of a list, the keys of a dict, the characters of a string (one stands for
\* all of them); a number or null is not iterable
Iterate(data) ==
    IF "arr" \in DOMAIN data THEN Ok(data.arr)
    ELSE IF "obj" \in DOMAIN data THEN Ok(KeysOf(DOMAIN data.obj))
    ELSE IF "str" \in DOMAIN data
         THEN Ok(IF data.str = "" THEN <<>> ELSE <<JStr(data.str)>>)
    ELSE Raise("TypeError")

\* ItemStatus(value)
ItemStatusOf(value) ==
    IF "str" \in DOMAIN value /\ value.str \in ItemStatus
    THEN Ok(value.str) ELSE Raise("ValueError")

\* Duration(value)
DurationOf(value) ==
    IF "str" \in DOMAIN value /\ value.str \in Duration
    THEN Ok(value.str) ELSE Raise("ValueError")

Item_to_dict(item) ==
    JObj([id |-> JStr(item.id),
          name |-> JStr(item.name),
          phase_id |-> JStr(item.phase_id),
          order |-> JNum(item.order),
          status |-> JStr(item.status)])

\* variant: the status is not read, the item gets the default of the dataclass
Item_from_dict_default(data) ==
    Try(Subscript(data, "id"), LAMBDA id :
    Try(Subscript(data, "name"), LAMBDA name :
    Try(Subscript(data, "phase_id"), LAMBDA phase_id :
    Try(Subscript(data, "order"), LAMBDA order :
        Ok([id |-> Untag(id), name |-> Untag(name), phase_id |-> Untag(phase_id),
            order |-> Untag(order), status |-> PENDING])))))

Item_from_dict(data) ==
    Try(Subscript(data, "id"), LAMBDA id :
    Try(Subscript(data, "name"), LAMBDA name :
    Try(Subscript(data, "phase_id"), LAMBDA phase_id :
    Try(Subscript(data, "order"), LAMBDA order :
    Try(Subscript(data, "status"), LAMBDA value :
    Try(ItemStatusOf(value), LAMBDA status :
        Ok([id |-> Untag(id), name |-> Untag(name), phase_id |-> Untag(phase_id),
            order |-> Untag(order), status |-> status])))))))

\* [Item.from_dict(item) for item in ...], from the k-th element on
RECURSIVE ItemsFromDicts(_, _)
ItemsFromDicts(xs, k) ==
    IF k > Len(xs) THEN Ok(<<>>)
    ELSE Try(Item_from_dict(xs[k]), LAMBDA item :
         Try(ItemsFromDicts(xs, k + 1), LAMBDA rest : Ok(<<item>> \o rest)))

Phase_to_dict(phase) ==
    JObj([id |-> JStr(phase.id),
          name |-> JStr(phase.name),
          order |-> JNum(phase.order),
          items |-> JArr([i \in 1..Len(phase.items) |-> Item_to_dict(phase.items[i])])])

Phase_from_dict(data) ==
    Try(Subscript(data, "id"), LAMBDA id :
    Try(Subscript(data, "name"), LAMBDA name :
    Try(Subscript(data, "order"), LAMBDA order :
    Try(GetOr(data, "items", JArr(<<>>)), LAMBDA list :
    Try(Iterate(list), LAMBDA xs :
    Try(ItemsFromDicts(xs, 1), LAMBDA items :
        Ok([id |-> Untag(id), name |-> Untag(name), order |-> Untag(order),
            items |-> items])))))))

\* [Phase.from_dict(phase) for phase in ...], from the k-th element on
RECURSIVE PhasesFromDicts(_, _)
PhasesFromDicts(xs, k) ==
    IF k > Len(xs) THEN Ok(<<>>)
    ELSE Try(Phase_from_dict(xs[k]), LAMBDA phase :
         Try(PhasesFromDicts(xs, k + 1), LAMBDA rest : Ok(<<phase>> \o rest)))

Plan_to_dict(p) ==
    JObj([id |-> JStr(p.id),
          goal |-> JStr(p.goal),
          duration |-> JStr(p.duration),
          weekly_hours |-> JNum(p.weekly_hours),
          phases |-> JArr([q \in 1..Len(p.phases) |-> Phase_to_dict(p.phases[q])])])

Plan_from_dict(data) ==
    Try(Subscript(data, "id"), LAMBDA id :
    Try(Subscript(data, "goal"), LAMBDA goal :
    Try(Subscript(data, "duration"), LAMBDA value :
    Try(DurationOf(value), LAMBDA duration :
    Try(Subscript(data, "weekly_hours"), LAMBDA weekly_hours :
    Try(GetOr(data, "phases", JArr(<<>>)), LAMBDA list :
    Try(Iterate(list), LAMBDA xs :
    Try(PhasesFromDicts(xs, 1), LAMBDA phases :
        Ok([id |-> Untag(id), goal |-> Untag(goal), duration |-> duration,
            weekly_hours |-> Untag(weekly_hours), phases |-> phases])))))))))

\* ----------------------------------------------------- storage.py: Storage
\* a file of text that is not JSON
Garbage == [exists |-> TRUE, text |-> "{"]

\* the file after json.dump(data, f)
json_dump(data) == [exists |-> TRUE, json |-> data]

\* json.load(f)
json_load(f) == IF "json" \in DOMAIN f THEN Ok(f.json) ELSE Raise("JSONDecodeError")

\* the file after Storage.save(plan)
save(p) == json_dump(Plan_to_dict(p))

\* the exceptions Storage.load turns into None
Caught == {"JSONDecodeError", "KeyError", "ValueError"}

\* Storage.load(): the plan or None it returns, or the exception it lets through
load(f) ==
    IF ~f.exists THEN Ok(None)
    ELSE Let(Try(json_load(f), LAMBDA data : Plan_from_dict(data)),
             LAMBDA r : IF Raised(r) /\ r.raise \in Caught THEN Ok(None) ELSE r)

\* -------------------------------------------------------------------- state
VARIABLES
    plan,          \* the Plan object
    ret,           \* the last call on it and the value it returned
    nCompleted,    \* complete_current calls that returned True
    nSkips,        \* skip_current calls that returned True
    skipped,       \* ids of the items a skip_current call has moved
    skipSnapshot,  \* item id -> ids of the other pending items of its phase at its last skip
    skippedSince,  \* item id -> ids of the items skipped after its last skip
    file,          \* what the file of Storage holds
    view           \* the widget the stack of the main window shows

vars == <<plan, ret, nCompleted, nSkips, skipped, skipSnapshot, skippedSince,
          templates, file, view>>

\* self.filepath does not exist
NoFile == [exists |-> FALSE]

\* no main window
NoView == "none"

Init ==
    /\ templates = TemplateTable
    /\ file = NoFile
    /\ view = NoView
    /\ \E in \in ProgressionInputs : plan = generate(in[1], in[2], in[3])
    /\ ret = [op |-> "generate", value |-> None]
    /\ nCompleted = 0
    /\ nSkips = 0
    /\ skipped = {}
    /\ skipSnapshot = [id \in ItemIds(plan) |-> {}]
    /\ skippedSince = [id \in ItemIds(plan) |-> {}]

\* variant: the call consumes the item it returns
GetCurrentItem_consume ==
    /\ ret' = [op |-> "get_current_item", value |-> get_current_item(plan)]
    /\ plan' = complete_current(plan).plan
    /\ UNCHANGED <<nCompleted, nSkips, skipped, skipSnapshot, skippedSince>>
    /\ UNCHANGED <<templates, file, view>>

GetCurrentItem ==
    /\ ret' = [op |-> "get_current_item", value |-> get_current_item(plan)]
    /\ UNCHANGED <<plan, nCompleted, nSkips, skipped, skipSnapshot, skippedSince>>
    /\ UNCHANGED <<templates, file, view>>

CompleteCurrent ==
    \E r \in {complete_current(plan)} :
        /\ plan' = r.plan
        /\ ret' = [op |-> "complete_current", value |-> Bool(r.value)]
        /\ nCompleted' = IF r.value THEN nCompleted + 1 ELSE nCompleted
        /\ UNCHANGED <<nSkips, skipped, skipSnapshot, skippedSince>>
        /\ UNCHANGED <<templates, file, view>>

SkipCurrent ==
    \E r \in {skip_current(plan)} :
    LET cur == r.current
        x == Deref(plan, cur).id
    IN  /\ r.value => nSkips < MaxSkips
        /\ plan' = r.plan
        /\ ret' = [op |-> "skip_current", value |-> Bool(r.value)]
        /\ nSkips' = IF r.value THEN nSkips + 1 ELSE nSkips
        /\ IF r.value
           THEN /\ skipped' = skipped \cup {x}
                /\ skipSnapshot' = [skipSnapshot EXCEPT ![x] =
                       {Deref(plan, s).id : s \in {t \in PhaseRefs(plan, cur[1]) :
                            t # cur /\ Deref(plan, t).status = PENDING}}]
                /\ skippedSince' = [id \in DOMAIN skippedSince |->
                       IF id = x THEN {} ELSE skippedSince[id] \cup {x}]
           ELSE UNCHANGED <<skipped, skipSnapshot, skippedSince>>
        /\ UNCHANGED nCompleted
        /\ UNCHANGED <<templates, file, view>>

GetCurrentPhase ==
    /\ ret' = [op |-> "get_current_phase", value |-> get_current_phase(plan)]
    /\ UNCHANGED <<plan, nCompleted, nSkips, skipped, skipSnapshot, skippedSince>>
    /\ UNCHANGED <<templates, file, view>>

GetProgress ==
    /\ ret' = [op |-> "get_progress", value |-> get_progress(plan)]
    /\ UNCHANGED <<plan, nCompleted, nSkips, skipped, skipSnapshot, skippedSince>>
    /\ UNCHANGED <<templates, file, view>>

Next ==
    \/ GetCurrentItem
    \/ GetCurrentPhase
    \/ GetProgress
    \/ CompleteCurrent
    \/ SkipCurrent

Spec == Init /\ [][Next]_vars

\* complete_current keeps being invoked
FairSpec == Spec /\ WF_vars(CompleteCurrent)

\* ------------------------------------------------- state: the plan generator
\* the state after PlanGenerator(): no call made yet, no plan
GenInit ==
    /\ templates = TemplateTable
    /\ file = NoFile
    /\ view = NoView
    /\ plan = None
    /\ ret = [op |-> "PlanGenerator", value |-> None]
    /\ nCompleted = 0
    /\ nSkips = 0
    /\ skipped = {}
    /\ skipSnapshot = <<>>
    /\ skippedSince = <<>>

DetectCategory ==
    /\ ret.op = "PlanGenerator"
    /\ \E goal \in Goals :
           ret' = [op |-> "_detect_category",
                   args |-> [goal |-> goal],
                   value |-> [category |-> _detect_category(goal)]]
    /\ UNCHANGED <<plan, nCompleted, nSkips, skipped, skipSnapshot, skippedSince>>
    /\ UNCHANGED <<templates, file, view>>

AdjustItems ==
    /\ ret.op = "PlanGenerator"
    /\ \E category \in {Categories[c] : c \in 1..Len(Categories)} \cup {"default"},
          duration \in Duration, weekly_hours \in WeeklyHours :
           /\ ret' = [op |-> "_adjust_items_for_duration",
                      args |-> [phases |-> _get_phase_template(category),
                                duration |-> duration,
                                weekly_hours |-> weekly_hours],
                      value |-> [phases |-> _adjust_items_for_duration(
                                     _get_phase_template(category), duration, weekly_hours)]]
           /\ templates' = templates_after(category, duration, weekly_hours)
    /\ UNCHANGED <<plan, nCompleted, nSkips, skipped, skipSnapshot, skippedSince>>
    /\ UNCHANGED <<file, view>>

\* plan = self.generator.generate(goal, duration, weekly_hours), a call that
\* shares the template lists with every other call
GenerateCall(goal, duration, weekly_hours) ==
    /\ plan' = generate(goal, duration, weekly_hours)
    /\ ret' = [op |-> "generate",
               args |-> [goal |-> goal, duration |-> duration,
                         weekly_hours |-> weekly_hours],
               value |-> None]
    /\ templates' = templates_after(_detect_category(goal), duration, weekly_hours)
    /\ UNCHANGED <<nCompleted, nSkips, skipped, skipSnapshot, skippedSince>>
    /\ UNCHANGED <<file, view>>

Generate ==
    /\ ret.op = "PlanGenerator"
    /\ \E goal \in Goals, duration \in Duration, weekly_hours \in WeeklyHours :
           GenerateCall(goal, duration, weekly_hours)

GenNext == DetectCategory \/ AdjustItems \/ Generate

\* one call on a new generator
GenSpec == GenInit /\ [][GenNext]_vars

\* ------------------------------------- state: one generator, call after call
\* inputs of the repeated calls: a goal of each category, each duration, and
\* weekly hours on both sides of the thresholds of the scaler
TableGoals == {GoalList[1], GoalList[2], GoalList[3], GoalList[5], GoalList[6]}
TableHours == {1, 2, 3, 5, 6, 10, 20, 40}

GenerateAgain ==
    \E goal \in TableGoals, duration \in Duration, weekly_hours \in TableHours :
        GenerateCall(goal, duration, weekly_hours)

TableNext == GenerateAgain

\* any number of generate calls on one generator
TableSpec == GenInit /\ [][TableNext]_vars

\* ------------------------------------------------ state: the main window
\* obj without the field key
DropField(j, key) == JObj([k \in DOMAIN j.obj \ {key} |-> j.obj[k]])

\* obj with value under key
SetField(j, key, value) ==
    JObj([k \in DOMAIN j.obj \cup {key} |-> IF k = key THEN value ELSE j.obj[k]])

\* xs with value in its first place
SetFirst(xs, value) == [k \in 1..Len(xs) |-> IF k = 1 THEN value ELSE xs[k]]

\* a plan as Storage.save wrote it
SavedPlan == Plan_to_dict(generate(GoalList[1], "3months", 1))
SavedPhase == SavedPlan.obj.phases.arr[1]
SavedItem == SavedPhase.obj.items.arr[1]

WithPhase(phase) == SetField(SavedPlan, "phases", JArr(SetFirst(SavedPlan.obj.phases.arr, phase)))
WithItem(item) == WithPhase(SetField(SavedPhase, "items", JArr(SetFirst(SavedPhase.obj.items.arr, item))))

\* JSON documents the file may hold when the program starts: a saved plan,
\* documents that are no object, and the saved plan with a field missing or
\* an enum value replaced, in the plan, in its first phase or in that phase's
\* first item
StoredDocuments ==
    {SavedPlan, JNull, JArr(<<>>), JObj(<<>>)}
        \cup {DropField(SavedPlan, k) : k \in DOMAIN SavedPlan.obj}
        \cup {SetField(SavedPlan, "duration", JStr("2years")),
              SetField(SavedPlan, "phases", JNull),
              WithPhase(JNull), WithItem(JNum(7)),
              WithItem(SetField(SavedItem, "status", JStr("done")))}
        \cup {WithPhase(DropField(SavedPhase, k)) : k \in DOMAIN SavedPhase.obj}
        \cup {WithItem(DropField(SavedItem, k)) : k \in DOMAIN SavedItem.obj}

StoredFiles == {NoFile, Garbage} \cup {json_dump(d) : d \in StoredDocuments}

\* the program has not started: some file, or none, is on the disk
AppInit ==
    /\ templates = TemplateTable
    /\ file \in StoredFiles
    /\ view = NoView
    /\ plan = None
    /\ ret = [op |-> "Storage", value |-> None]
    /\ nCompleted = 0
    /\ nSkips = 0
    /\ skipped = {}
    /\ skipSnapshot = <<>>
    /\ skippedSince = <<>>

\* variant: the focus view is shown for every plan
_show_appropriate_view_focus(p) ==
    IF p = None THEN "input" ELSE "focus"

\* the widget _show_appropriate_view makes current
_show_appropriate_view(p) ==
    IF p = None THEN "input"
    ELSE IF get_current_item(p) # None THEN "focus"
    ELSE "completed"

\* FocusView.update_view: setEnabled of the complete and the skip button
buttons_enabled(p) == get_current_item(p) # None /\ get_current_phase(p) # None

history == <<nCompleted, skipped, skipSnapshot, skippedSince>>

\* MainWindow(): __init__ ends with _load_plan; an exception of load leaves
\* no window. The program may be started again at any time.
LoadPlan ==
    \E r \in {load(file)} :
        /\ ret' = [op |-> "_load_plan", value |-> r]
        /\ plan' = IF Raised(r) THEN None ELSE r.ok
        /\ view' = IF Raised(r) THEN NoView ELSE _show_appropriate_view(r.ok)
        /\ UNCHANGED <<file, templates, nSkips, history>>

\* the create button of the input view: _create_plan, then _on_plan_created
OnPlanCreated ==
    /\ view = "input"
    /\ \E in \in ProgressionInputs :
           /\ plan' = generate(in[1], in[2], in[3])
           /\ templates' = templates_after(_detect_category(in[1]), in[2], in[3])
    /\ file' = save(plan')
    /\ view' = _show_appropriate_view(plan')
    /\ ret' = [op |-> "_on_plan_created", value |-> None]
    /\ nSkips' = 0
    /\ UNCHANGED history

\* the complete button of the focus view
OnComplete ==
    /\ view = "focus" /\ buttons_enabled(plan)
    /\ \E r \in {complete_current(plan)} :
           /\ plan' = r.plan
           /\ file' = save(r.plan)
           /\ view' = _show_appropriate_view(r.plan)
    /\ ret' = [op |-> "_on_complete", value |-> None]
    /\ UNCHANGED <<templates, nSkips, history>>

\* variant: the skip handler does not save
OnSkip_nosave ==
    /\ view = "focus" /\ buttons_enabled(plan)
    /\ nSkips < MaxSkips
    /\ \E r \in {skip_current(plan)} :
           /\ plan' = r.plan
           /\ view' = _show_appropriate_view(r.plan)
    /\ ret' = [op |-> "_on_skip", value |-> None]
    /\ nSkips' = nSkips + 1
    /\ UNCHANGED <<file, templates, history>>

\* the skip button of the focus view
OnSkip ==
    /\ view = "focus" /\ buttons_enabled(plan)
    /\ nSkips < MaxSkips
    /\ \E r \in {skip_current(plan)} :
           /\ plan' = r.plan
           /\ file' = save(r.plan)
           /\ view' = _show_appropriate_view(r.plan)
    /\ ret' = [op |-> "_on_skip", value |-> None]
    /\ nSkips' = nSkips + 1
    /\ UNCHANGED <<templates, history>>

\* the new-plan button of the focus view and of the completed view
OnRegenerate ==
    /\ view \in {"focus", "completed"}
    /\ plan' = None
    /\ file' = NoFile
    /\ view' = "input"
    /\ ret' = [op |-> "_on_regenerate", value |-> None]
    /\ UNCHANGED <<templates, nSkips, history>>

AppNext ==
    \/ LoadPlan
    \/ OnPlanCreated
    \/ OnComplete
    \/ OnSkip
    \/ OnRegenerate

AppSpec == AppInit /\ [][AppNext]_vars

\* --------------------------------------------------------------- properties
\* what the properties speak about, stated on the plan's contents and not
\* through the scan of get_current_item
Pending(p) == {r \in Refs(p) : Deref(p, r).status = PENDING}
AllCompleted(p) == \A r \in Refs(p) : Deref(p, r).status = COMPLETED
Total(p) == Cardinality(Refs(p))
RefOf(p, id) == CHOOSE r \in Refs(p) : Deref(p, r).id = id
StatusOf(p, id) == Deref(p, RefOf(p, id)).status

\* r comes before t in (phase order, item order)
Before(p, r, t) ==
    \/ p.phases[r[1]].order < p.phases[t[1]].order
    \/ /\ p.phases[r[1]].order = p.phases[t[1]].order
       /\ Deref(p, r).order < Deref(p, t).order

\* r is the first of the references S in (phase order, item order)
IsFirstOf(p, r, S) == r \in S /\ \A t \in S \ {r} : Before(p, r, t)

\* the item at the first of the references S, none if S is empty
FirstItemOf(p, S) ==
    IF S = {} THEN None ELSE Deref(p, CHOOSE r \in S : IsFirstOf(p, r, S))

MaxOf(S) == CHOOSE m \in S : \A n \in S : n <= m

\* C1 (as stated): once item X has been skipped, get_current_item returns X
\* again only when every other item of its phase that was pending at the
\* skip is completed.
C1_NotCurrentUntilOthersCompleted ==
    \A cur \in {get_current_item(plan)} :
        cur # None =>
            \A y \in skipSnapshot[cur.id] : StatusOf(plan, y) = COMPLETED

\* C1 (amended): once item X has been skipped, get_current_item returns X
\* again only when every other item of its phase that was pending at the
\* skip has since been completed or been skipped itself.
C1_NotCurrentUntilOthersCompletedOrSkipped ==
    \A cur \in {get_current_item(plan)} :
        cur # None =>
            \A y \in skipSnapshot[cur.id] :
                StatusOf(plan, y) = COMPLETED \/ y \in skippedSince[cur.id]

\* a skipped item is current again, one item that was pending at its skip is
\* completed and another was skipped in turn and is still pending
C1_Witness ==
    \E cur \in {get_current_item(plan)} :
        /\ cur # None
        /\ \E y \in skipSnapshot[cur.id] : StatusOf(plan, y) = COMPLETED
        /\ \E y \in skipSnapshot[cur.id] :
               StatusOf(plan, y) = PENDING /\ y \in skippedSince[cur.id]

\* C2: get_current_item returns the first pending item in (phase order, item
\* order), and none exactly when no item is pending; so does a call of it.
C2_CurrentIsFirstPending ==
    \A cur \in {get_current_item(plan)} :
        /\ cur = FirstItemOf(plan, Pending(plan))
        /\ cur = None <=> Pending(plan) = {}
        /\ ret.op = "get_current_item" => ret.value = FirstItemOf(plan, Pending(plan))

\* a call returned an item that a skip has moved behind the items after it
C2_Witness ==
    /\ ret.op = "get_current_item"
    /\ ret.value # None
    /\ ret.value.id \in skipped
    /\ nCompleted > 0

\* C3: with a current item, complete_current returns True, changes that item's
\* status from pending to completed and nothing else, and the next
\* get_current_item returns the next pending item in (phase order, item
\* order), none if there is no other.
C3_CompleteStep ==
    \A cur \in {get_current_item(plan)} :
        (ret'.op = "complete_current" /\ cur # None) =>
            \E r \in {RefOf(plan, cur.id)} :
                /\ cur.status = PENDING
                /\ ret'.value = Bool(TRUE)
                /\ plan' = [plan EXCEPT !.phases[r[1]].items[r[2]].status = COMPLETED]
                /\ \A t \in Refs(plan) \ {r} : Deref(plan', t) = Deref(plan, t)
                /\ get_current_item(plan') = FirstItemOf(plan, Pending(plan) \ {r})

C3_CompleteCurrent == [][C3_CompleteStep]_vars

\* complete_current has succeeded on an item that a skip had moved
C3_Witness ==
    /\ ret.op = "complete_current"
    /\ ret.value = Bool(TRUE)
    /\ \E r \in Refs(plan) : Deref(plan, r).status = COMPLETED /\ Deref(plan, r).id \in skipped

\* C4: with a current item, skip_current returns True and sets that item's
\* order to the maximum order of all items of its phase, completed ones
\* included, plus one; its status stays pending.
C4_SkipStep ==
    \A cur \in {get_current_item(plan)} :
        (ret'.op = "skip_current" /\ cur # None) =>
            \E r \in {RefOf(plan, cur.id)} :
                /\ ret'.value = Bool(TRUE)
                /\ Deref(plan', r).order =
                       MaxOf({Deref(plan, t).order : t \in PhaseRefs(plan, r[1])}) + 1
                /\ Deref(plan', r).status = PENDING

C4_SkipCurrent == [][C4_SkipStep]_vars

\* skip_current has succeeded in a phase that holds a completed item and an
\* item skipped before
C4_Witness ==
    /\ ret.op = "skip_current"
    /\ ret.value = Bool(TRUE)
    /\ nSkips >= 2
    /\ \E r \in Pending(plan) :
           \E t \in PhaseRefs(plan, r[1]) : Deref(plan, t).status = COMPLETED

\* C5: a skipped item that is not completed keeps its phase current, and once
\* every other item of its phase is completed it is the current item.
C5_SkippedStaysInPhase ==
    \A cur \in {get_current_item(plan)} :
        \A r \in Refs(plan) :
            (Deref(plan, r).id \in skipped /\ Deref(plan, r).status # COMPLETED) =>
                /\ cur # None
                /\ cur.phase_id = plan.phases[r[1]].id
                /\ (\A t \in PhaseRefs(plan, r[1]) \ {r} : Deref(plan, t).status = COMPLETED)
                       => cur = Deref(plan, r)

\* a skipped item is the last pending item of a phase that is not the last
\* phase, and a call returned it
C5_Witness ==
    \E r \in Refs(plan) :
        /\ Deref(plan, r).id \in skipped
        /\ Deref(plan, r).status = PENDING
        /\ \A t \in PhaseRefs(plan, r[1]) \ {r} : Deref(plan, t).status = COMPLETED
        /\ r[1] < Len(plan.phases)
        /\ ret.op = "get_current_item"
        /\ ret.value = Deref(plan, r)

\* C6: without a current item, complete_current and skip_current return False
\* and change no status and no order.
C6_NoCurrentStep ==
    (ret'.op \in {"complete_current", "skip_current"} /\ get_current_item(plan) = None) =>
        /\ ret'.value = Bool(FALSE)
        /\ plan' = plan

C6_NoCurrentNoChange == [][C6_NoCurrentStep]_vars

\* skip_current was called on a finished plan
C6_Witness ==
    /\ AllCompleted(plan)
    /\ ret.op = "skip_current"
    /\ ret.value = Bool(FALSE)

\* C7: get_current_item returns none exactly when every item is completed.
C7_NoneIffAllCompleted ==
    /\ get_current_item(plan) = None <=> AllCompleted(plan)
    /\ ret.op = "get_current_item" => (ret.value = None <=> AllCompleted(plan))

\* a call returned none on a plan that was finished after skips
C7_Witness ==
    /\ ret.op = "get_current_item"
    /\ ret.value = None
    /\ nSkips > 0

\* C8: a completed item stays completed, and the only status change is from
\* pending to completed.
C8_StatusStep ==
    /\ Refs(plan') = Refs(plan)
    /\ \A r \in Refs(plan) :
           /\ Deref(plan, r).status = COMPLETED => Deref(plan', r).status = COMPLETED
           /\ Deref(plan', r).status # Deref(plan, r).status =>
                  Deref(plan, r).status = PENDING /\ Deref(plan', r).status = COMPLETED

C8_CompletionIsTerminal == [][C8_StatusStep]_vars

\* skip_current has succeeded on the last pending item of a phase whose other
\* items are completed
C8_Witness ==
    /\ ret.op = "skip_current"
    /\ ret.value = Bool(TRUE)
    /\ \E r \in Pending(plan) :
           /\ Deref(plan, r).id \in skipped
           /\ \A t \in PhaseRefs(plan, r[1]) \ {r} : Deref(plan, t).status = COMPLETED

\* C9: when complete_current keeps being called the plan ends without a
\* current item and stays so, whatever skips come in between; exactly as many
\* complete_current calls succeed as the plan has items; and the step that
\* ends the plan is never a skip_current.
C9_EndStep ==
    (get_current_item(plan) # None /\ get_current_item(plan') = None) =>
        ret'.op = "complete_current"

C9_CompletesUnderCompletion ==
    /\ <>[](get_current_item(plan) = None)
    /\ [](nCompleted <= Total(plan))
    /\ [](get_current_item(plan) = None => nCompleted = Total(plan))
    /\ [][C9_EndStep]_vars

\* the plan has ended after as many skips as the bound allows
C9_Witness ==
    /\ get_current_item(plan) = None
    /\ nCompleted = Total(plan)
    /\ nSkips >= 2

\* C10: every item's status is pending or completed, never skipped.
C10_NeverSkippedStatus ==
    \A r \in Refs(plan) : Deref(plan, r).status \in {PENDING, COMPLETED}

\* items have been skipped and completed
C10_Witness ==
    /\ skipped # {}
    /\ \E r \in Refs(plan) : Deref(plan, r).id \in skipped /\ Deref(plan, r).status = PENDING
    /\ \E r \in Refs(plan) : Deref(plan, r).status = COMPLETED

\* the highest order among the items of phase q
PhaseMax(p, q) == MaxOf({p.phases[q].items[i].order : i \in 1..Len(p.phases[q].items)})

RECURSIVE SumRaised(_, _)
\* by how much the highest orders of the phases q.. lie above those of phases
\* numbered 0..n-1
SumRaised(p, q) ==
    IF q > Len(p.phases) THEN 0
    ELSE PhaseMax(p, q) - (Len(p.phases[q].items) - 1) + SumRaised(p, q + 1)

\* C11: get_progress returns the pair (number of items whose status is
\* completed, number of items), counted over all phases whatever the order
\* values are, and 0 <= completed <= total in every reachable state.
C11_ProgressCounts ==
    \A g \in {get_progress(plan)} :
        /\ g.completed = Cardinality({r \in Refs(plan) : Deref(plan, r).status = COMPLETED})
        /\ g.total = Total(plan)
        /\ g.completed = nCompleted
        /\ 0 <= g.completed /\ g.completed <= g.total
        /\ ret.op = "get_progress" => ret.value = g

\* a call counted a completed item that a skip had moved behind its phase,
\* with items still pending
C11_Witness ==
    /\ ret.op = "get_progress"
    /\ ret.value.completed >= 2
    /\ ret.value.completed < ret.value.total
    /\ \E id \in skipped : StatusOf(plan, id) = COMPLETED

C12_CallStep ==
    ret'.op = "get_current_item" =>
        /\ plan' = plan
        /\ ret'.value = get_current_item(plan')
        /\ ret.op = "get_current_item" => ret'.value = ret.value

\* C12: get_current_item is idempotent: a call leaves the plan as it found
\* it, so the call that follows it with no complete_current or skip_current
\* in between returns the same item, or none again.
C12_Idempotent == [][C12_CallStep]_vars

\* a call returned an item of a later phase, which a call repeated in this
\* state returns again
C12_Witness ==
    /\ ret.op = "get_current_item"
    /\ ret.value # None
    /\ ret.value = get_current_item(plan)
    /\ nCompleted >= 3
    /\ nSkips >= 1

\* C13: get_current_phase returns the phase whose item list holds the item
\* get_current_item returns, and none exactly when get_current_item returns
\* none; the phase_id of every item is the id of the phase that holds it.
C13_CurrentPhaseOwnsCurrentItem ==
    \A cur \in {get_current_item(plan)} : \A ph \in {get_current_phase(plan)} :
        /\ ph = None <=> cur = None
        /\ cur # None => \E r \in {RefOf(plan, cur.id)} :
               /\ ph = plan.phases[r[1]]
               /\ ph.items[r[2]] = cur
        /\ \A r \in Refs(plan) : Deref(plan, r).phase_id = plan.phases[r[1]].id
        /\ ret.op = "get_current_phase" => ret.value = ph

\* a call returned a phase after the first, in which an item has been skipped
C13_Witness ==
    /\ ret.op = "get_current_phase"
    /\ ret.value # None
    /\ ret.value.order >= 1
    /\ \E i \in 1..Len(ret.value.items) : ret.value.items[i].id \in skipped

C20_OrderStep ==
    /\ \A r \in Refs(plan) : Deref(plan', r).order >= Deref(plan, r).order
    /\ \A q \in 1..Len(plan.phases) : PhaseMax(plan', q) >= PhaseMax(plan, q)
    /\ SumRaised(plan', 1) = nSkips'
    /\ (ret'.op = "skip_current" /\ ret'.value = Bool(TRUE)) =>
           \E cur \in {current_ref(plan)} :
               /\ Deref(plan', cur).order > Deref(plan, cur).order
               /\ PhaseMax(plan', cur[1]) = PhaseMax(plan, cur[1]) + 1
               /\ \A r \in Refs(plan) \ {cur} : Deref(plan', r).order = Deref(plan, r).order
    /\ ret'.op # "skip_current" =>
           \A r \in Refs(plan) : Deref(plan', r).order = Deref(plan, r).order

\* C20: order values are never renumbered: no step lowers the order of an
\* item, each successful skip_current raises the order of the item it moves
\* and the highest order of that item's phase by exactly one, so that the
\* highest orders lie above their initial values by the number of successful
\* skips.
C20_OrdersNeverDecrease == [][C20_OrderStep]_vars

\* two successful skips in one phase have raised its highest order by two
C20_Witness ==
    /\ ret.op = "skip_current"
    /\ ret.value = Bool(TRUE)
    /\ \E q \in 1..Len(plan.phases) : PhaseMax(plan, q) = Len(plan.phases[q].items) + 1

\* some keyword of the category is a substring of the goal
Matches(goal, category) ==
    \E k \in 1..Len(keywords(category)) : Contains(goal, keywords(category)[k])

\* the first of study, project, skill, health that matches, else default
FirstMatch(goal) ==
    IF Matches(goal, "study") THEN "study"
    ELSE IF Matches(goal, "project") THEN "project"
    ELSE IF Matches(goal, "skill") THEN "skill"
    ELSE IF Matches(goal, "health") THEN "health"
    ELSE "default"

\* number of items in a list of <<phase name, item names>>
TemplateTotal(phases) ==
    Cardinality(UNION {{<<p, i>> : i \in 1..Len(phases[p][2])} : p \in 1..Len(phases)})

\* max(10, floor(weeks * weekly_hours / 3)) with 12, 26 and 52 weeks
TargetItemCount(duration, weekly_hours) ==
    LET w == IF duration = "3months" THEN 12 ELSE IF duration = "6months" THEN 26 ELSE 52
        t == (w * weekly_hours) \div 3
    IN  IF t < 10 THEN 10 ELSE t

\* xs is a prefix of ys
IsPrefix(xs, ys) == Len(xs) <= Len(ys) /\ \A k \in 1..Len(xs) : ys[k] = xs[k]

\* C14: for every non-empty goal, each of the three durations and every
\* weekly_hours in 1..40, generate returns a plan: the item total it divides
\* by is not zero, a goal that matches no keyword gets the default template,
\* and the plan has 3 to 5 phases and at least 10 items.
C14_GenerateReturnsPlan ==
    ret.op = "generate" =>
        \A tpl \in {_get_phase_template(_detect_category(ret.args.goal))} :
            /\ ret.args.goal # <<>>
            /\ TemplateTotal(tpl) > 0
            /\ (\A c \in {"study", "project", "skill", "health"} : ~Matches(ret.args.goal, c))
                   => tpl = DEFAULT_PHASES
            /\ plan # None
            /\ Len(plan.phases) = Len(tpl)
            /\ Len(plan.phases) \in 3..5
            /\ Total(plan) >= 10

\* a goal that matches no keyword, with the longest duration and the most
\* hours, got the five phases of the default template
C14_Witness ==
    /\ ret.op = "generate"
    /\ ret.args.goal = <<"A", "A">>
    /\ ret.args.duration = "1year"
    /\ ret.args.weekly_hours = 40
    /\ Len(plan.phases) = 5
    /\ plan.phases[5].name = DEFAULT_PHASES[5][1]

\* C15: the category of a goal is the first of study, project, skill, health
\* one of whose keywords is a substring of the goal, and default if there is
\* none; a goal that matches skill and health keywords only is skill, and
\* the goal "yeong-eo gong-bu" is study.
C15_FirstMatchWins ==
    ret.op = "_detect_category" =>
        /\ ret.value.category = FirstMatch(ret.args.goal)
        /\ (/\ Matches(ret.args.goal, "skill") /\ Matches(ret.args.goal, "health")
            /\ ~Matches(ret.args.goal, "study") /\ ~Matches(ret.args.goal, "project"))
               => ret.value.category = "skill"
        /\ ret.args.goal = <<"yeong", "eo", " ", "gong", "bu">> => ret.value.category = "study"

\* a goal with a keyword of the skill list and another of the health list was
\* classified as skill
C15_Witness ==
    /\ ret.op = "_detect_category"
    /\ ret.args.goal = <<"geon", "gang", " ", "yo", "ri">>
    /\ ret.value.category = "skill"

\* C16: the target is max(10, floor(weeks * weekly_hours / 3)) with 12, 26
\* and 52 weeks; the scaler returns the item lists of the template unchanged
\* whenever the target is at most the template's item count or at most 1.5
\* times it; 3 months at 5 hours a week on the 16-item template give the
\* target 20 and 16 items.
C16_UnchangedUpToOneAndAHalf ==
    ret.op = "_adjust_items_for_duration" =>
        \A current \in {TemplateTotal(ret.args.phases)} :
        \A target \in {TargetItemCount(ret.args.duration, ret.args.weekly_hours)} :
            /\ target_items(ret.args.duration, ret.args.weekly_hours) = target
            /\ (target <= current \/ 2 * target <= 3 * current)
                   => /\ Len(ret.value.phases) = Len(ret.args.phases)
                      /\ \A p \in 1..Len(ret.args.phases) :
                             ret.value.phases[p][2] = ret.args.phases[p][2]
            /\ (current = 16 /\ ret.args.duration = "3months" /\ ret.args.weekly_hours = 5)
                   => target = 20 /\ TemplateTotal(ret.value.phases) = 16

\* the target is exactly 1.5 times the template's item count (24 for 16) and
\* the item lists came back unchanged
C16_Witness ==
    /\ ret.op = "_adjust_items_for_duration"
    /\ 2 * TargetItemCount(ret.args.duration, ret.args.weekly_hours)
           = 3 * TemplateTotal(ret.args.phases)
    /\ TemplateTotal(ret.value.phases) = TemplateTotal(ret.args.phases)

\* C17: when the target is more than 1.5 times the template's item count,
\* the scaler appends to each phase, after its original items and in their
\* order, one renamed duplicate of each of the first
\* floor(phase_item_count * (multiplier - 1)) items of that phase.
C17_DuplicatesOfFirstItems ==
    ret.op = "_adjust_items_for_duration" =>
        \A current \in {TemplateTotal(ret.args.phases)} :
        \A target \in {TargetItemCount(ret.args.duration, ret.args.weekly_hours)} :
            2 * target > 3 * current =>
                /\ Len(ret.value.phases) = Len(ret.args.phases)
                /\ \A p \in 1..Len(ret.args.phases) :
                   \A items \in {ret.args.phases[p][2]} :
                   \A out \in {ret.value.phases[p][2]} :
                   \A n \in {(Len(items) * (target - current)) \div current} :
                       /\ Len(out) = Len(items) + Cardinality({k \in 1..Len(items) : k <= n})
                       /\ \A k \in 1..Len(items) :
                              /\ out[k] = items[k]
                              /\ k <= n => out[Len(items) + k] = items[k] \o " (deep)"

\* one phase got the duplicate of its first item only, after its three items
C17_Witness ==
    /\ ret.op = "_adjust_items_for_duration"
    /\ \E p \in 1..Len(ret.args.phases) :
           /\ Len(ret.args.phases[p][2]) = 3
           /\ Len(ret.value.phases[p][2]) = 4
           /\ ret.value.phases[p][2][4] = ret.args.phases[p][2][1] \o " (deep)"

\* C18: the output of the scaler has the phases of the template, with their
\* names and in their order, and each output item list starts with the
\* original item list.
C18_PhasesKeptItemsPrefixed ==
    ret.op = "_adjust_items_for_duration" =>
        /\ Len(ret.value.phases) = Len(ret.args.phases)
        /\ \A p \in 1..Len(ret.args.phases) :
               /\ ret.value.phases[p][1] = ret.args.phases[p][1]
               /\ IsPrefix(ret.args.phases[p][2], ret.value.phases[p][2])

\* every phase came back with twice its items, the originals first
C18_Witness ==
    /\ ret.op = "_adjust_items_for_duration"
    /\ \A p \in 1..Len(ret.args.phases) :
           /\ Len(ret.value.phases[p][2]) = 2 * Len(ret.args.phases[p][2])
           /\ IsPrefix(ret.args.phases[p][2], ret.value.phases[p][2])

\* C19: in a plan generate has just returned, the order of each phase is its
\* position in the scaled template and the order of each item its position
\* in the item list of its phase, counted from 0, and every item is pending;
\* so the phase orders are pairwise distinct, and so are the item orders
\* within each phase.
C19_FreshPlanOrders ==
    ret.op = "generate" =>
        \A tpl \in {_adjust_items_for_duration(
                        _get_phase_template(_detect_category(ret.args.goal)),
                        ret.args.duration, ret.args.weekly_hours)} :
            /\ Len(plan.phases) = Len(tpl)
            /\ \A p \in 1..Len(tpl) :
                   /\ plan.phases[p].order = p - 1
                   /\ plan.phases[p].name = tpl[p][1]
                   /\ Len(plan.phases[p].items) = Len(tpl[p][2])
                   /\ \A i \in 1..Len(tpl[p][2]) :
                          /\ plan.phases[p].items[i].order = i - 1
                          /\ plan.phases[p].items[i].name = tpl[p][2][i]
                          /\ plan.phases[p].items[i].status = PENDING
            /\ \A p, q \in 1..Len(plan.phases) :
                   p # q => plan.phases[p].order # plan.phases[q].order
            /\ \A p \in 1..Len(plan.phases) :
               \A i, j \in 1..Len(plan.phases[p].items) :
                   i # j => plan.phases[p].items[i].order # plan.phases[p].items[j].order

\* a plan of five phases from an expanded template: the last item of a phase
\* is a renamed duplicate and its order is its position
C19_Witness ==
    /\ ret.op = "generate"
    /\ Len(plan.phases) = 5
    /\ Len(plan.phases[2].items) = 6
    /\ plan.phases[2].items[6].order = 5
    /\ plan.phases[2].items[6].name = plan.phases[2].items[2].name \o " (deep)"

Skeleton(p) ==
    [q \in 1..Len(p.phases) |->
        [id |-> p.phases[q].id, name |-> p.phases[q].name, order |-> p.phases[q].order,
         items |-> [i \in 1..Len(p.phases[q].items) |->
                       [id |-> p.phases[q].items[i].id,
                        name |-> p.phases[q].items[i].name,
                        phase_id |-> p.phases[q].items[i].phase_id]]]]

C21_FrameStep ==
    \A cur \in {current_ref(plan)} :
        /\ Skeleton(plan') = Skeleton(plan)
        /\ plan'.id = plan.id /\ plan'.goal = plan.goal
        /\ plan'.duration = plan.duration /\ plan'.weekly_hours = plan.weekly_hours
        /\ ret'.op = "complete_current" =>
               \A r \in Refs(plan) :
                   /\ Deref(plan', r).order = Deref(plan, r).order
                   /\ r # cur => Deref(plan', r).status = Deref(plan, r).status
        /\ ret'.op = "skip_current" =>
               /\ \A r \in Refs(plan) :
                      /\ Deref(plan', r).status = Deref(plan, r).status
                      /\ r # cur => Deref(plan', r).order = Deref(plan, r).order
               /\ get_progress(plan') = get_progress(plan)
        /\ ret'.op \in {"get_current_item", "get_current_phase", "get_progress"} =>
               plan' = plan

\* C21: complete_current changes only the status of the current item,
\* skip_current only the order of the current item, so that get_progress is
\* the same after a skip; get_current_item, get_current_phase and
\* get_progress change nothing; no operation changes an id, a name, an
\* owning phase, a phase order or the number of phases and items.
C21_Frame == [][C21_FrameStep]_vars

\* complete_current has completed an item whose order a skip had raised
C21_Witness ==
    /\ ret.op = "complete_current"
    /\ ret.value = Bool(TRUE)
    /\ \E r \in Refs(plan) :
           /\ Deref(plan, r).status = COMPLETED
           /\ Deref(plan, r).order >= Len(plan.phases[r[1]].items)

\* C25: the order values of the items of a phase are pairwise distinct in
\* every state reached from a generated plan by skip_current and
\* complete_current.
C25_OrdersDistinctInPhase ==
    \A q \in 1..Len(plan.phases) :
        \A i, j \in 1..Len(plan.phases[q].items) :
            i # j => plan.phases[q].items[i].order # plan.phases[q].items[j].order

\* two items of one phase have been skipped, one of them is completed
C25_Witness ==
    \E q \in 1..Len(plan.phases) :
        /\ PhaseMax(plan, q) = Len(plan.phases[q].items) + 1
        /\ \E i \in 1..Len(plan.phases[q].items) :
               /\ plan.phases[q].items[i].status = COMPLETED
               /\ plan.phases[q].items[i].id \in skipped

\* C26: if an item of a phase is completed then every item of every phase
\* with a smaller phase order is completed, and the current item belongs to
\* the phase of lowest order that still has a pending item.
C26_PhasesInOrder ==
    /\ \A r \in Refs(plan) :
           Deref(plan, r).status = COMPLETED =>
               \A t \in Refs(plan) :
                   plan.phases[t[1]].order < plan.phases[r[1]].order =>
                       Deref(plan, t).status = COMPLETED
    /\ \A cur \in {current_ref(plan)} :
           cur # NoRef =>
               \A t \in Pending(plan) :
                   plan.phases[cur[1]].order <= plan.phases[t[1]].order

\* the third phase has a completed item and a skipped item still pending
C26_Witness ==
    \E r, t \in PhaseRefs(plan, 3) :
        /\ Deref(plan, r).status = COMPLETED
        /\ Deref(plan, t).status = PENDING
        /\ Deref(plan, t).id \in skipped

\* the ids of the pending items of the current phase, by ascending order
PendingOfCurrentPhase(p) ==
    LET cur == current_ref(p)
        S == IF cur = NoRef THEN {}
             ELSE {r \in PhaseRefs(p, cur[1]) : Deref(p, r).status = PENDING}
    IN  [n \in 1..Cardinality(S) |->
            Deref(p, CHOOSE r \in S :
                Cardinality({t \in S : Deref(p, t).order < Deref(p, r).order}) = n - 1).id]

RECURSIVE SkipTimes(_, _)
\* the plan after n more calls of skip_current
SkipTimes(p, n) ==
    IF n = 0 THEN p
    ELSE Let(skip_current(p).plan, LAMBDA after : SkipTimes(after, n - 1))

Rotate(xs) == IF xs = <<>> THEN xs ELSE Tail(xs) \o <<Head(xs)>>

C27_SkipStep ==
    (ret'.op = "skip_current" /\ ret'.value = Bool(TRUE)) =>
        \A P \in {PendingOfCurrentPhase(plan)} :
            /\ Len(P) >= 1
            /\ PendingOfCurrentPhase(plan') = Rotate(P)
            /\ get_current_item(plan').id = IF Len(P) = 1 THEN P[1] ELSE P[2]
            /\ \A n \in 1..(Len(P) - 1) :
                   get_current_item(SkipTimes(plan, n)).id = P[n + 1]
            /\ get_current_item(SkipTimes(plan, Len(P))).id = P[1]

\* C27: with k >= 1 pending items in the current phase, a skip makes the
\* next pending item current and keeps the others in their relative order,
\* k skips in a row make the original item current again, and with k = 1 the
\* skip succeeds and the current item stays.
C27_RoundRobin == [][C27_SkipStep]_vars

\* the second of two skips in a row over the two pending items of a phase has
\* made the first skipped item current again
C27_Witness ==
    /\ ret.op = "skip_current"
    /\ ret.value = Bool(TRUE)
    /\ \E cur \in {get_current_item(plan)} :
           /\ cur # None
           /\ cur.id \in skipped
           /\ Cardinality(skipSnapshot[cur.id]) = 1
           /\ skipSnapshot[cur.id] \subseteq skippedSince[cur.id]
           /\ \A y \in skipSnapshot[cur.id] : StatusOf(plan, y) = PENDING

\* C29: when the scaler expands a template, each phase gains at most as many
\* items as it has, so the scaled total is at most twice the template total,
\* and it does not exceed the target; for every input the scaled total is at
\* most the greater of the target and the template total.
C29_ExpansionBounded ==
    ret.op = "_adjust_items_for_duration" =>
        \A current \in {TemplateTotal(ret.args.phases)} :
        \A target \in {TargetItemCount(ret.args.duration, ret.args.weekly_hours)} :
        \A scaled \in {TemplateTotal(ret.value.phases)} :
            /\ 2 * target > 3 * current =>
                   /\ \A p \in 1..Len(ret.args.phases) :
                          Len(ret.value.phases[p][2]) <= 2 * Len(ret.args.phases[p][2])
                   /\ scaled <= 2 * current
                   /\ scaled <= target
            /\ scaled <= (IF target >= current THEN target ELSE current)

\* the target is more than twice the template total: every phase was doubled
\* and the scaled total stays below the target
C29_Witness ==
    /\ ret.op = "_adjust_items_for_duration"
    /\ TargetItemCount(ret.args.duration, ret.args.weekly_hours)
           > 2 * TemplateTotal(ret.args.phases)
    /\ TemplateTotal(ret.value.phases) = 2 * TemplateTotal(ret.args.phases)

\* C22: after _on_plan_created, _on_complete and _on_skip the stored record
\* is the plan in memory, after _on_regenerate there is no plan in memory and
\* no stored record, and whenever the window is up what the file holds loads
\* as the plan in memory.
C22_StoredPlanIsLivePlan ==
    /\ ret.op \in {"_on_plan_created", "_on_complete", "_on_skip"} =>
           plan # None /\ file = json_dump(Plan_to_dict(plan))
    /\ ret.op = "_on_regenerate" => plan = None /\ file = NoFile
    /\ view # NoView => load(file) = Ok(plan)

\* the skip handler has run on a plan with a completed item and the file
\* holds the raised order
C22_Witness ==
    /\ ret.op = "_on_skip"
    /\ \E q \in 1..Len(plan.phases) : \E i, j \in 1..Len(plan.phases[q].items) :
           /\ plan.phases[q].items[i].status = COMPLETED
           /\ plan.phases[q].items[j].order >= Len(plan.phases[q].items)
           /\ file.json.obj.phases.arr[q].obj.items.arr[j].obj.order
                  = JNum(plan.phases[q].items[j].order)

\* the fields to_dict writes for a plan, a phase and an item
PlanFields == {"id", "goal", "duration", "weekly_hours", "phases"}
PhaseFields == {"id", "name", "order", "items"}
ItemFields == {"id", "name", "phase_id", "order", "status"}

\* data does not hold every field of S
Lacks(data, S) == ~("obj" \in DOMAIN data /\ S \subseteq DOMAIN data.obj)

\* the elements of the list under key, none if there is no such list
ListUnder(data, key) ==
    IF "obj" \in DOMAIN data /\ key \in DOMAIN data.obj /\ "arr" \in DOMAIN data.obj[key]
    THEN {data.obj[key].arr[k] : k \in 1..Len(data.obj[key].arr)}
    ELSE {}

\* the stored plan, one of its phases or one of its items lacks a field
LacksRequiredField(data) ==
    \/ Lacks(data, PlanFields)
    \/ \E ph \in ListUnder(data, "phases") :
           \/ Lacks(ph, PhaseFields)
           \/ \E it \in ListUnder(ph, "items") : Lacks(it, ItemFields)

\* the stored plan holds a duration, or one of its items a status, that is
\* not a value of the enum
InvalidEnumValue(data) ==
    \/ /\ "obj" \in DOMAIN data /\ "duration" \in DOMAIN data.obj
       /\ Raised(DurationOf(data.obj.duration))
    \/ \E ph \in ListUnder(data, "phases") : \E it \in ListUnder(ph, "items") :
           /\ "obj" \in DOMAIN it /\ "status" \in DOMAIN it.obj
           /\ Raised(ItemStatusOf(it.obj.status))

\* C23 (as stated): Storage.load returns None, and raises nothing, whenever
\* the stored data fails to parse, lacks a required field or holds an
\* invalid duration or status value.
C23_LoadReportsNoPlan ==
    (/\ ret.op = "_load_plan"
     /\ file.exists
     /\ \/ Raised(json_load(file))
        \/ ~Raised(json_load(file)) /\
               (LacksRequiredField(file.json) \/ InvalidEnumValue(file.json)))
        => ret.value = Ok(None)

\* C28: after load and after every handler the view shown matches the plan:
\* the input view exactly when there is no plan, the focus view exactly when
\* the plan has a current item, the completed view exactly when there is a
\* plan without pending item; in the focus view the complete and the skip
\* button are enabled, so both handlers run with a current item only.
C28_ViewMatchesPlan ==
    view # NoView =>
        /\ view \in {"input", "focus", "completed"}
        /\ view = "input" <=> plan = None
        /\ view = "focus" <=> (plan # None /\ get_current_item(plan) # None)
        /\ view = "completed" <=> (plan # None /\ Pending(plan) = {})
        /\ view = "focus" => buttons_enabled(plan)

\* the completed view is shown after the last item of a plan was completed
C28_Witness ==
    /\ ret.op = "_on_complete"
    /\ view = "completed"
    /\ plan # None
    /\ Total(plan) >= 12
    /\ AllCompleted(plan)

\* C30: for every plan reached from generate by complete_current and
\* skip_current, Plan.from_dict(plan.to_dict()) is the plan, with its ids,
\* goal, duration, weekly_hours, phases, names, orders and statuses, and a
\* load after a save returns a plan with the same get_current_item and
\* get_progress.
C30_RoundTrip ==
    plan # None =>
        /\ Plan_from_dict(Plan_to_dict(plan)) = Ok(plan)
        /\ \A r \in {load(save(plan))} :
               /\ ~Raised(r)
               /\ r.ok # None
               /\ get_current_item(r.ok) = get_current_item(plan)
               /\ get_progress(r.ok) = get_progress(plan)
        /\ ret.op = "_load_plan" => ret.value = Ok(plan)

\* the program was started again on a saved plan with completed items and a
\* skipped item, and shows the focus view
C30_Witness ==
    /\ ret.op = "_load_plan"
    /\ view = "focus"
    /\ nSkips >= 1
    /\ \E r \in Refs(plan) : Deref(plan, r).status = COMPLETED
    /\ \E r \in Refs(plan) :
           /\ Deref(plan, r).status = PENDING
           /\ Deref(plan, r).order >= Len(plan.phases[r[1]].items)

====
